---- MODULE Spec2Model ----
(***************************************************************************)
(* COREP assistant: the schema-driven field validation engine              *)
(* (backend/app/services/validation_service.py), the template catalog      *)
(* (backend/app/services/template_service.py), the validation summary and  *)
(* the steps of process_query (backend/app/main.py).                       *)
(*                                                                         *)
(* Numbers are fixed-point: one unit of value is Unit ticks, so 1.01 is    *)
(* 202 ticks and the factor 12.5 stays exact.  Binary floating-point       *)
(* rounding of the Python floats is outside the model.                     *)
(***************************************************************************)
EXTENDS Integers, Sequences, FiniteSets, TLC

VARIABLES
    fields,            \* validate_fields: the proposed fields
    template_type,     \* validate_fields: the template type
    template_schema,   \* validate_fields: the schema
    per_field_issues,  \* validate_fields: its list "issues" when the per-field loops end
    issues,            \* the list validate_fields has returned
    raised,            \* validate_fields has ended in an exception
    summary,           \* the dict generate_validation_summary has returned
    rule_call,         \* a direct call of a rule predicate: rule, value, outcome
    field_ids,         \* the list get_all_field_ids has returned
    templates,         \* TemplateService.templates of the shared service instance
    calls,             \* concurrent requests: the locals of each process_query
    lists,             \* the list objects that the concurrent requests create
    relevant_docs,     \* process_query: what retrieve_relevant_documents returned
    llm_output,        \* process_query: what generate_structured_output returned
    audit_log,         \* process_query: the audit log entries
    pc                 \* "request", then "validated", or "raised_in_rules" or "raised"
                       \* (by the cross-field rules), then "done"; or
                       \* "request", then "field_ids_listed"; the steps of
                       \* process_query have their own positions

\* the state of the concurrent requests and of the objects they share
concurrent_vars == <<templates, calls, lists>>

\* the locals of one process_query before its validation step
query_vars == <<relevant_docs, llm_output, audit_log>>

vars == <<fields, template_type, template_schema, per_field_issues, issues,
          raised, summary, rule_call, field_ids, pc, concurrent_vars, query_vars>>

(***************************************************************************)
(* Fixed-point scale and Python values.                                    *)
(***************************************************************************)
\* ticks per 1.0; even, so that x * 12.5 of a value given in hundredths is whole
Unit == 2 * 100

\* a value in hundredths, as ticks
Hundredths(h) == 2 * h

\* Optional[Any] of TemplateField.value: None, a number, or a string
PyNone == [kind |-> "none", n |-> 0, s |-> ""]
PyNum(n) == [kind |-> "num", n |-> n, s |-> ""]
PyStr(s) == [kind |-> "str", n |-> 0, s |-> s]
\* True and False
PyBool(b) == [kind |-> "bool", n |-> IF b THEN 1 ELSE 0, s |-> ""]
\* an int beyond the range of float, such as 10**400 or -10**400, by its sign;
\* the model applies no arithmetic to it, only float()
PyHugeInt(sign) == [kind |-> "hugeint", n |-> sign, s |-> ""]
\* the outcome of an expression that raised TypeError
PyTypeError == [kind |-> "TypeError", n |-> 0, s |-> ""]
\* the outcome of an expression that raised OverflowError
PyOverflowError == [kind |-> "OverflowError", n |-> 0, s |-> ""]

IsNone(v) == v.kind = "none"
IsNum(v) == v.kind = "num"
IsStr(v) == v.kind = "str"
IsBool(v) == v.kind = "bool"
IsHugeInt(v) == v.kind = "hugeint"
IsErr(v) == v.kind = "TypeError"
IsOverflow(v) == v.kind = "OverflowError"

Abs(x) == IF x < 0 THEN -x ELSE x

\* a + b of Python: numbers add, strings concatenate, a mix raises TypeError
PyAdd(a, b) ==
    IF IsErr(a) \/ IsErr(b) THEN PyTypeError
    ELSE IF IsNum(a) /\ IsNum(b) THEN PyNum(a.n + b.n)
    ELSE IF IsStr(a) /\ IsStr(b) THEN PyStr(a.s \o b.s)
    ELSE PyTypeError

\* a - b of Python: defined on numbers only
PySub(a, b) ==
    IF IsNum(a) /\ IsNum(b) THEN PyNum(a.n - b.n) ELSE PyTypeError

\* a * 12.5 of Python: a string times a float raises TypeError
PyMul12_5(a) ==
    IF IsNum(a) THEN PyNum((a.n * 25) \div 2) ELSE PyTypeError

\* abs(a) of Python
PyAbs(a) ==
    IF IsNum(a) THEN PyNum(Abs(a.n)) ELSE PyTypeError

\* sum(list) of Python: 0 + list[0] + list[1] + ...
RECURSIVE PySumFrom(_, _)
PySumFrom(acc, list) ==
    IF list = <<>> THEN acc
    ELSE PySumFrom(PyAdd(acc, Head(list)), Tail(list))

PySum(list) == PySumFrom(PyNum(0), list)

\* the decimal digits of a natural number
RECURSIVE PyStrOfNat(_)
PyStrOfNat(n) ==
    LET digit(d) == <<"0", "1", "2", "3", "4", "5", "6", "7", "8", "9">>[d + 1]
    IN  IF n < 10 THEN digit(n) ELSE PyStrOfNat(n \div 10) \o digit(n % 10)

\* two decimal digits
TwoDigits(h) == PyStrOfNat(h \div 10) \o PyStrOfNat(h % 10)

\* f"{x}" of a number given in ticks: a whole number is a Python int, as a
\* JSON integer is, and prints its digits; a number with a fraction is a float
\* and prints its shortest decimal form
PyStrOfNum(ticks) ==
    LET h == Abs(ticks) \div 2
        sign == IF ticks < 0 THEN "-" ELSE ""
        whole == PyStrOfNat(h \div 100)
        frac == h % 100
    IN  IF frac = 0 THEN sign \o whole
        ELSE IF frac % 10 = 0 THEN sign \o whole \o "." \o PyStrOfNat(frac \div 10)
        ELSE sign \o whole \o "." \o TwoDigits(frac)

\* f"{x:.2f}" of a number given in ticks: two decimals, a tie to the even digit
PyFormat2f(ticks) ==
    LET q == Abs(ticks) \div 2
        h == IF Abs(ticks) % 2 = 1 /\ q % 2 = 1 THEN q + 1 ELSE q
        sign == IF ticks < 0 THEN "-" ELSE ""
    IN  sign \o PyStrOfNat(h \div 100) \o "." \o TwoDigits(h % 100)

(***************************************************************************)
(* models.py                                                               *)
(***************************************************************************)
OWN_FUNDS_CR1 == "own_funds_cr1"
CAPITAL_REQUIREMENTS_CR2 == "capital_requirements_cr2"

TemplateType == {OWN_FUNDS_CR1, CAPITAL_REQUIREMENTS_CR2}

\* TemplateField: the fields the validator reads
TemplateField(id, value, confidence) ==
    [field_id |-> id, value |-> value, confidence_score |-> confidence]

\* ValidationIssue of a per-field finding or of a caller; its message, which
\* quotes the field_name of the definition, is not part of the model
ValidationIssue(severity, id, rule) ==
    [severity |-> severity, field_id |-> id, rule |-> rule]

\* ValidationIssue of a cross-field finding; the message is the sequence of
\* the segments of its f-string
CrossFieldIssue(severity, id, message, rule) ==
    [severity |-> severity, field_id |-> id, message |-> message, rule |-> rule]

(***************************************************************************)
(* template_service.py: the Template Catalog                               *)
(***************************************************************************)
\* one field definition of a schema section
FieldDef(id, required, rules) ==
    [field_id |-> id, required |-> required, validation_rules |-> rules]

Section(id, defs) == [section_id |-> id, fields |-> defs]

\* TemplateService._get_cr1_schema
CR1Schema ==
    [sections |-> <<
        Section("cet1_capital", <<
            FieldDef("CR1_010_010", TRUE, <<"must_be_positive">>),
            FieldDef("CR1_020_010", TRUE, <<>>),
            FieldDef("CR1_030_010", TRUE, <<>>),
            FieldDef("CR1_040_010", FALSE, <<>>),
            FieldDef("CR1_050_010", FALSE, <<>>) >>),
        Section("cet1_adjustments", <<
            FieldDef("CR1_100_010", TRUE, <<"must_be_negative_or_zero">>),
            FieldDef("CR1_110_010", TRUE, <<>>),
            FieldDef("CR1_120_010", TRUE, <<>>) >>),
        Section("tier1_tier2", <<
            FieldDef("CR1_150_010", TRUE, <<>>),
            FieldDef("CR1_200_010", TRUE, <<>>) >>),
        Section("totals", <<
            FieldDef("CR1_500_010", TRUE, <<"must_be_positive">>),
            FieldDef("CR1_600_010", TRUE, <<"must_be_positive">>),
            FieldDef("CR1_700_010", TRUE, <<"must_be_positive">>) >>) >>]

\* TemplateService._get_cr2_schema
CR2Schema ==
    [sections |-> <<
        Section("credit_risk", <<
            FieldDef("CR2_010_010", TRUE, <<"must_be_positive">>),
            FieldDef("CR2_020_010", FALSE, <<"must_be_positive">>) >>),
        Section("other_risks", <<
            FieldDef("CR2_050_010", TRUE, <<>>),
            FieldDef("CR2_060_010", TRUE, <<"must_be_positive">>) >>),
        Section("total_requirements", <<
            FieldDef("CR2_100_010", TRUE, <<"must_be_positive">>) >>) >>]

\* the dict {} that get_template_schema returns for a type outside the catalog:
\* schema.get("sections", []) of it is the empty list
EmptySchema == [sections |-> << >>]

\* TemplateService.templates, built once in __init__
Templates ==
    [t \in TemplateType |->
        IF t = OWN_FUNDS_CR1 THEN CR1Schema ELSE CR2Schema]

\* TemplateService.get_template_schema: self.templates.get(template_type, {})
GetTemplateSchema(t) ==
    IF t \in DOMAIN Templates THEN Templates[t] ELSE EmptySchema

\* FlattenSections with the sections taken last to first
RECURSIVE FlattenSections_SectionsReversed(_)
FlattenSections_SectionsReversed(sections) ==
    IF sections = <<>> THEN <<>>
    ELSE FlattenSections_SectionsReversed(Tail(sections)) \o Head(sections).fields

\* the field definitions of a schema, sections in order, fields in order
RECURSIVE FlattenSections(_)
FlattenSections(sections) ==
    IF sections = <<>> THEN <<>>
    ELSE Head(sections).fields \o FlattenSections(Tail(sections))

SchemaFieldDefs(schema) == FlattenSections(schema.sections)

\* TemplateService.get_all_field_ids
GetAllFieldIds(t) ==
    LET defs == SchemaFieldDefs(GetTemplateSchema(t))
    IN  [i \in 1..Len(defs) |-> defs[i].field_id]

(***************************************************************************)
(* The outcome of a method that builds a list of findings is               *)
(* [raised, issues]: raised when an expression of the method raised an     *)
(* exception it does not catch, which leaves it without a return value.    *)
(***************************************************************************)
Returned(list) == [raised |-> FALSE, issues |-> list]
Raised == [raised |-> TRUE, issues |-> << >>]

\* the statements of a method in order: the first one that raises ends the method
RECURSIVE InOrder(_)
InOrder(steps) ==
    IF steps = <<>> THEN Returned(<< >>)
    ELSE IF Head(steps).raised THEN Raised
    ELSE LET rest == InOrder(Tail(steps))
         IN  IF rest.raised THEN Raised
             ELSE Returned(Head(steps).issues \o rest.issues)

(***************************************************************************)
(* validation_service.py: the Rule Registry                                *)
(***************************************************************************)
\* float(s) of a string: the number it spells, or ValueError
PyFloatOfStr(s) ==
    CASE s = "10" -> PyNum(10 * Unit)
      [] s = "0" -> PyNum(0)
      [] s = "-5" -> PyNum(-5 * Unit)
      [] OTHER -> PyTypeError

\* float(value) for a non-None value: the number, ValueError or TypeError
\* (which the callers catch alike), or OverflowError for an int too large
PyFloat(v) ==
    IF IsNum(v) THEN v
    ELSE IF IsBool(v) THEN PyNum(v.n * Unit)
    ELSE IF IsStr(v) THEN PyFloatOfStr(v.s)
    ELSE IF IsHugeInt(v) THEN PyOverflowError
    ELSE PyTypeError

\* ValidationService._validate_positive: True, False, or the OverflowError
\* that "except (ValueError, TypeError)" lets through
ValidatePositive(v) ==
    IF IsNone(v) THEN PyBool(FALSE)
    ELSE LET f == PyFloat(v)
         IN  IF IsOverflow(f) THEN PyOverflowError
             ELSE IF IsErr(f) THEN PyBool(FALSE)
             ELSE PyBool(f.n > 0)

\* ValidationService._validate_negative_or_zero: True, False, or the
\* OverflowError that "except (ValueError, TypeError)" lets through
ValidateNegativeOrZero(v) ==
    IF IsNone(v) THEN PyBool(TRUE)
    ELSE LET f == PyFloat(v)
         IN  IF IsOverflow(f) THEN PyOverflowError
             ELSE IF IsErr(f) THEN PyBool(FALSE)
             ELSE PyBool(f.n <= 0)

\* ValidationService._validate_required
ValidateRequired(v) == PyBool(~IsNone(v))

\* RuleNames without the entry of must_be_negative_or_zero
RuleNames_WithoutNegativeOrZero == {"must_be_positive", "required_field"}

\* the keys of ValidationService.validation_rules
RuleNames == {"must_be_positive", "must_be_negative_or_zero", "required_field"}

\* rule_name in self.validation_rules
RuleIsRegistered(rule_name) == rule_name \in RuleNames

\* self.validation_rules[rule_name](value)
ApplyRule(rule_name, v) ==
    CASE rule_name = "must_be_positive" -> ValidatePositive(v)
      [] rule_name = "must_be_negative_or_zero" -> ValidateNegativeOrZero(v)
      [] rule_name = "required_field" -> ValidateRequired(v)

(***************************************************************************)
(* validation_service.py: validate_fields, the per-field walk              *)
(***************************************************************************)
\* the confidence threshold 0.5 of validate_fields
ConfidenceThreshold == Unit \div 2

\* LowConfidence with <= for <
LowConfidence_Inclusive(confidence) == confidence <= ConfidenceThreshold

\* field.confidence_score < 0.5
LowConfidence(confidence) == confidence < ConfidenceThreshold

\* {f.field_id: f for f in fields}: a later entry replaces an earlier one
FieldMap(fs) ==
    [id \in {fs[i].field_id : i \in 1..Len(fs)} |->
        fs[CHOOSE i \in 1..Len(fs) :
              /\ fs[i].field_id = id
              /\ \A j \in (i+1)..Len(fs) : fs[j].field_id # id]]

\* NotPopulated with "not field.value" for "field.value is None": 0, the
\* empty string and False count as missing
NotPopulated_FalsyIsMissing(field_map, id) ==
    \/ id \notin DOMAIN field_map
    \/ field_map[id].value \in {PyNone, PyNum(0), PyStr(""), PyBool(FALSE)}

\* not field or field.value is None, for field = field_map.get(field_id); a
\* TemplateField object is always true
NotPopulated(field_map, id) ==
    \/ id \notin DOMAIN field_map
    \/ IsNone(field_map[id].value)

\* RuleIssues without the registry test: a rule name that is not registered
\* is reported as a failed rule
RECURSIVE RuleIssues_UnknownFails(_, _, _)
RuleIssues_UnknownFails(rule_names, id, v) ==
    IF rule_names = <<>> THEN Returned(<< >>)
    ELSE LET rule_name == Head(rule_names)
             failed == Returned(<<ValidationIssue("error", id, rule_name)>>)
             this_rule ==
                 IF ~RuleIsRegistered(rule_name) THEN failed
                 ELSE LET outcome == ApplyRule(rule_name, v)
                      IN  IF IsOverflow(outcome) THEN Raised
                          ELSE IF outcome = PyBool(FALSE) THEN failed
                          ELSE Returned(<< >>)
         IN  InOrder(<< this_rule, RuleIssues_UnknownFails(Tail(rule_names), id, v) >>)

\* the loop over field_def["validation_rules"]: "if not validator(field.value)"
\* appends a finding, and an exception of the validator ends the method
RECURSIVE RuleIssues(_, _, _)
RuleIssues(rule_names, id, v) ==
    IF rule_names = <<>> THEN Returned(<< >>)
    ELSE LET rule_name == Head(rule_names)
             this_rule ==
                 IF ~RuleIsRegistered(rule_name) THEN Returned(<< >>)
                 ELSE LET outcome == ApplyRule(rule_name, v)
                      IN  IF IsOverflow(outcome) THEN Raised
                          ELSE IF outcome = PyBool(FALSE)
                          THEN Returned(<<ValidationIssue("error", id, rule_name)>>)
                          ELSE Returned(<< >>)
         IN  InOrder(<< this_rule, RuleIssues(Tail(rule_names), id, v) >>)

\* the confidence check at the end of the loop body
ConfidenceIssues(id, confidence) ==
    IF LowConfidence(confidence)
    THEN <<ValidationIssue("warning", id, "confidence_threshold")>>
    ELSE <<>>

\* FieldDefIssues with the two "value is None" tests dropped: a proposed field
\* with a null value is reported as missing and still runs the rule checks
FieldDefIssues_NullNotSkipped(field_def, field_map) ==
    LET id == field_def.field_id
        required_issue ==
            IF field_def.required /\ NotPopulated(field_map, id)
            THEN <<ValidationIssue("error", id, "required_field")>>
            ELSE <<>>
    IN  IF id \notin DOMAIN field_map THEN Returned(required_issue)
        ELSE InOrder(<<
                 Returned(required_issue),
                 RuleIssues(field_def.validation_rules, id, field_map[id].value),
                 Returned(ConfidenceIssues(id, field_map[id].confidence_score)) >>)

\* the body of the loop of validate_fields for one field definition
FieldDefIssues(field_def, field_map) ==
    LET id == field_def.field_id
    IN  IF field_def.required /\ NotPopulated(field_map, id)
        THEN Returned(<<ValidationIssue("error", id, "required_field")>>)
        ELSE IF NotPopulated(field_map, id)
        THEN Returned(<< >>)
        ELSE InOrder(<<
                 RuleIssues(field_def.validation_rules, id, field_map[id].value),
                 Returned(ConfidenceIssues(id, field_map[id].confidence_score)) >>)

\* the two nested loops of validate_fields over sections and fields
RECURSIVE PerFieldIssues(_, _)
PerFieldIssues(field_defs, field_map) ==
    IF field_defs = <<>> THEN Returned(<< >>)
    ELSE InOrder(<< FieldDefIssues(Head(field_defs), field_map),
                    PerFieldIssues(Tail(field_defs), field_map) >>)

(***************************************************************************)
(* validation_service.py: the cross-field business rules                   *)
(***************************************************************************)
\* the rounding tolerance 1 of the formula checks
Tolerance == 1 * Unit

\* {f.field_id: f.value for f in fields if f.value is not None}
ValueMap(fs) ==
    LET populated == SelectSeq(fs, LAMBDA f : ~IsNone(f.value))
        m == FieldMap(populated)
    IN  [id \in DOMAIN m |-> m[id].value]

\* field_map.get(id, default)
MapGet(field_map, id, default) ==
    IF id \in DOMAIN field_map THEN field_map[id] ELSE default

\* ExceedsTolerance with >= for >
ExceedsTolerance_Inclusive(calculated, reported) ==
    Abs(calculated - reported) >= Tolerance

\* abs(calculated - reported) > 1, on numbers
ExceedsTolerance(calculated, reported) ==
    Abs(calculated - reported) > Tolerance

\* f"{texts[1]}{reported}{texts[2]}{calculated:.2f})"
FormulaMessage(texts, reported, calculated) ==
    << texts[1], PyStrOfNum(reported.n), texts[2], PyFormat2f(calculated.n), ")" >>

\* FormulaCheck without the test "reported is not None": a total that is not
\* reported is compared as 0
FormulaCheck_ReportedDefaultsToZero(calculated, reported, id, texts, rule) ==
    LET total == IF IsNone(reported) THEN PyNum(0) ELSE reported
    IN  IF IsErr(calculated) THEN Raised
        ELSE LET diff == PyAbs(PySub(calculated, total))
             IN  IF IsErr(diff) THEN Raised
                 ELSE IF ExceedsTolerance(calculated.n, total.n)
                 THEN Returned(<<CrossFieldIssue("error", id,
                                    FormulaMessage(texts, total, calculated), rule)>>)
                 ELSE Returned(<< >>)

\* one formula check: the computation, then
\* "if reported is not None: if abs(calculated - reported) > 1: issues.append(...)"
FormulaCheck(calculated, reported, id, texts, rule) ==
    IF IsErr(calculated) THEN Raised
    ELSE IF IsNone(reported) THEN Returned(<< >>)
    ELSE LET diff == PyAbs(PySub(calculated, reported))
         IN  IF IsErr(diff) THEN Raised
             ELSE IF ExceedsTolerance(calculated.n, reported.n)
             THEN Returned(<<CrossFieldIssue("error", id,
                                FormulaMessage(texts, reported, calculated), rule)>>)
             ELSE Returned(<< >>)

\* "if cet1_amount is not None and cet1_amount < 0": a string < 0 raises TypeError
MinimumCet1Check(cet1_amount) ==
    IF IsNone(cet1_amount) THEN Returned(<< >>)
    ELSE IF ~IsNum(cet1_amount) THEN Raised
    ELSE IF cet1_amount.n < 0
    THEN Returned(<<CrossFieldIssue("error", "CR1_500_010",
                                    <<"CET1 capital cannot be negative">>,
                                    "cr1_minimum_cet1")>>)
    ELSE Returned(<< >>)

\* CalculatedCet1 with the adjustments subtracted
CalculatedCet1_AdjustmentsSubtracted(field_map) ==
    LET Get(id) == MapGet(field_map, id, PyNum(0))
        cet1_components == << Get("CR1_010_010"), Get("CR1_020_010"),
                              Get("CR1_030_010"), Get("CR1_040_010"),
                              Get("CR1_050_010") >>
        adjustments == Get("CR1_100_010")
    IN  PySub(PySum(cet1_components), adjustments)

\* calculated_cet1 = sum(cet1_components) + adjustments
CalculatedCet1(field_map) ==
    LET Get(id) == MapGet(field_map, id, PyNum(0))
        cet1_components == << Get("CR1_010_010"), Get("CR1_020_010"),
                              Get("CR1_030_010"), Get("CR1_040_010"),
                              Get("CR1_050_010") >>
        adjustments == Get("CR1_100_010")
    IN  PyAdd(PySum(cet1_components), adjustments)

\* ValidateCr1Rules with each total computed from the total the check before
\* it computed, for the total that is reported
ValidateCr1Rules_FromComputedTotals(field_map) ==
    LET Get(id) == MapGet(field_map, id, PyNum(0))
        Reported(id) == MapGet(field_map, id, PyNone)
        calculated_cet1 == CalculatedCet1(field_map)
        calculated_tier1 == PyAdd(calculated_cet1, Get("CR1_150_010"))
        calculated_own_funds == PyAdd(calculated_tier1, Get("CR1_200_010"))
    IN  InOrder(<<
            FormulaCheck(calculated_cet1, Reported("CR1_500_010"), "CR1_500_010",
                         <<"Total CET1 (", ") does not match sum of components (">>,
                         "cr1_cet1_calculation"),
            FormulaCheck(calculated_tier1, Reported("CR1_600_010"), "CR1_600_010",
                         <<"Total Tier 1 (", ") does not match CET1 + AT1 (">>,
                         "cr1_tier1_calculation"),
            FormulaCheck(calculated_own_funds, Reported("CR1_700_010"), "CR1_700_010",
                         <<"Total own funds (", ") does not match Tier 1 + Tier 2 (">>,
                         "cr1_own_funds_calculation"),
            MinimumCet1Check(Reported("CR1_500_010")) >>)

\* ValidationService._validate_cr1_rules
ValidateCr1Rules(field_map) ==
    LET Get(id) == MapGet(field_map, id, PyNum(0))
        Reported(id) == MapGet(field_map, id, PyNone)
        calculated_cet1 == CalculatedCet1(field_map)
        calculated_tier1 == PyAdd(Get("CR1_500_010"), Get("CR1_150_010"))
        calculated_own_funds == PyAdd(Get("CR1_600_010"), Get("CR1_200_010"))
    IN  InOrder(<<
            FormulaCheck(calculated_cet1, Reported("CR1_500_010"), "CR1_500_010",
                         <<"Total CET1 (", ") does not match sum of components (">>,
                         "cr1_cet1_calculation"),
            FormulaCheck(calculated_tier1, Reported("CR1_600_010"), "CR1_600_010",
                         <<"Total Tier 1 (", ") does not match CET1 + AT1 (">>,
                         "cr1_tier1_calculation"),
            FormulaCheck(calculated_own_funds, Reported("CR1_700_010"), "CR1_700_010",
                         <<"Total own funds (", ") does not match Tier 1 + Tier 2 (">>,
                         "cr1_own_funds_calculation"),
            MinimumCet1Check(Reported("CR1_500_010")) >>)

\* "if credit_std == 0 and credit_irb == 0": == never raises
CreditRiskCheck(credit_std, credit_irb) ==
    IF /\ IsNum(credit_std) /\ credit_std.n = 0
       /\ IsNum(credit_irb) /\ credit_irb.n = 0
    THEN Returned(<<CrossFieldIssue("warning", "CR2_010_010",
            <<"No credit risk exposure reported (both Standardised and IRB are zero)">>,
            "cr2_credit_risk_required")>>)
    ELSE Returned(<< >>)

\* ValidationService._validate_cr2_rules
ValidateCr2Rules(field_map) ==
    LET Get(id) == MapGet(field_map, id, PyNum(0))
        credit_std == Get("CR2_010_010")
        credit_irb == Get("CR2_020_010")
        market == Get("CR2_050_010")
        operational == Get("CR2_060_010")
        calculated_rwa == PyAdd(PyAdd(credit_std, credit_irb),
                                PyMul12_5(PyAdd(market, operational)))
    IN  InOrder(<<
            FormulaCheck(calculated_rwa, MapGet(field_map, "CR2_100_010", PyNone),
                         "CR2_100_010",
                         <<"Total RWA (", ") does not match calculated RWA (">>,
                         "cr2_rwa_calculation"),
            CreditRiskCheck(credit_std, credit_irb) >>)

\* ValidateCrossFieldRules with "else" for the "elif" of the CR2 branch
ValidateCrossFieldRules_ElseCr2(fs, t, schema) ==
    LET field_map == ValueMap(fs)
    IN  IF t = OWN_FUNDS_CR1 THEN ValidateCr1Rules(field_map)
        ELSE ValidateCr2Rules(field_map)

\* ValidationService._validate_cross_field_rules: the schema argument is not read
ValidateCrossFieldRules(fs, t, schema) ==
    LET field_map == ValueMap(fs)
    IN  IF t = OWN_FUNDS_CR1 THEN ValidateCr1Rules(field_map)
        ELSE IF t = CAPITAL_REQUIREMENTS_CR2 THEN ValidateCr2Rules(field_map)
        ELSE Returned(<< >>)

\* ValidationService.validate_fields: the per-field findings, then the
\* cross-field findings; an exception of a rule predicate or of the
\* cross-field rules propagates.  walked: the per-field loops have ended, and
\* per_field is the list "issues" as they leave it.
ValidateFieldsResult(fs, t, schema) ==
    LET walk == PerFieldIssues(SchemaFieldDefs(schema), FieldMap(fs))
        cross == IF walk.raised THEN Raised
                 ELSE ValidateCrossFieldRules(fs, t, schema)
    IN  [raised |-> cross.raised,
         issues |-> IF cross.raised THEN << >> ELSE walk.issues \o cross.issues,
         walked |-> ~walk.raised,
         per_field |-> walk.issues]

\* sum(1 for i in issues if i.severity == severity)
CountSeverity(list, severity) ==
    Cardinality({i \in 1..Len(list) : list[i].severity = severity})

\* ValidationSummary with is_valid computed from every finding
ValidationSummary_AnyIssueInvalid(list) ==
    [total_issues |-> Len(list),
     errors |-> CountSeverity(list, "error"),
     warnings |-> CountSeverity(list, "warning"),
     info |-> CountSeverity(list, "info"),
     is_valid |-> Len(list) = 0]

\* ValidationService.generate_validation_summary
ValidationSummary(list) ==
    [total_issues |-> Len(list),
     errors |-> CountSeverity(list, "error"),
     warnings |-> CountSeverity(list, "warning"),
     info |-> CountSeverity(list, "info"),
     is_valid |-> CountSeverity(list, "error") = 0]

(***************************************************************************)
(* The calls the model explores.                                           *)
(***************************************************************************)
\* longest list of proposed fields handed to validate_fields
MaxFields == 2

\* a template type outside the catalog
UNKNOWN_TEMPLATE == "unknown_template"

TemplateTypeInputs == TemplateType \cup {UNKNOWN_TEMPLATE}

\* values of proposed fields: None, -1, 0, 1, 2.01 and a non-numeric string
ValueInputs ==
    { PyNone, PyNum(Hundredths(-100)), PyNum(0), PyNum(Hundredths(100)),
      PyNum(Hundredths(201)), PyStr("abc") }

\* confidence scores 0.49 and 0.5
ConfidenceInputs == { Hundredths(49), Hundredths(50) }

\* the lists of at most n elements of S
RECURSIVE SeqsUpTo(_, _)
SeqsUpTo(S, n) ==
    IF n = 0 THEN { << >> }
    ELSE LET shorter == SeqsUpTo(S, n - 1)
         IN  shorter \cup { Append(q, x) : q \in shorter, x \in S }

FieldInputs(ids, values, confidences) ==
    { TemplateField(id, v, c) : id \in ids, v \in values, c \in confidences }

\* the field ids the proposed fields of a catalog call are drawn from
CatalogFieldIds(t) ==
    IF t = OWN_FUNDS_CR1
    THEN {"CR1_010_010", "CR1_100_010", "CR1_500_010", "CR1_600_010", "CR1_700_010"}
    ELSE IF t = CAPITAL_REQUIREMENTS_CR2
    THEN {"CR2_010_010", "CR2_020_010", "CR2_050_010", "CR2_100_010"}
    ELSE {"X", "CR1_500_010"}

\* the field ids of a caller-made schema and of the fields proposed for it
CustomFieldIds == {"X", "CR2_010_010"}

\* caller-made schemas: one section with one field definition
CustomSchemas ==
    { [sections |-> << Section("custom", << FieldDef(id, required,
                                                      << "must_be_positive" >>) >>) >>] :
        id \in CustomFieldIds, required \in BOOLEAN }

\* the values of the proposed fields of a call with a caller-made schema
CustomValues == ValueInputs \ { PyNum(Hundredths(201)) }

\* longest list of rule names in a field definition of a caller-made schema
MaxRules == 2

\* the registered rule names and one that is not registered
RuleNameInputs == RuleNames \cup {"must_be_integer"}

NoSummary ==
    [total_issues |-> 0, errors |-> 0, warnings |-> 0, info |-> 0, is_valid |-> FALSE]

\* no concurrent requests: the catalog as __init__ builds it, and no call
NoConcurrentCalls ==
    /\ templates = Templates
    /\ calls = << >>
    /\ lists = << >>

\* retrieval and generation have not returned
NotRetrieved == [returned |-> FALSE, docs |-> << >>]
NotGenerated == [returned |-> FALSE, has_fields |-> FALSE, fields |-> << >>]

\* no request is in its retrieval, generation or mapping step
NoQuery ==
    /\ relevant_docs = NotRetrieved
    /\ llm_output = NotGenerated
    /\ audit_log = << >>

\* no rule predicate is called directly
NoRuleCall == [rule_name |-> "", value |-> PyNone, outcome |-> PyNone]

\* the values of the proposed fields of a catalog call; 0.08 for CR2, where
\* 0.08 * 12.5 is exactly 1
CatalogValues(t) ==
    IF t = CAPITAL_REQUIREMENTS_CR2
    THEN ValueInputs \cup { PyNum(Hundredths(8)) }
    ELSE ValueInputs

\* process_query: the schema is the catalog's schema of the request's type
InitCatalog ==
    /\ template_type \in TemplateTypeInputs
    /\ template_schema = GetTemplateSchema(template_type)
    /\ fields \in SeqsUpTo(FieldInputs(CatalogFieldIds(template_type),
                                       CatalogValues(template_type),
                                       {Hundredths(90)}), MaxFields)

\* a direct call of validate_fields with a schema of the caller
InitCustom ==
    /\ template_type \in TemplateTypeInputs
    /\ template_schema \in CustomSchemas
    /\ fields \in SeqsUpTo(FieldInputs(CustomFieldIds, CustomValues,
                                       ConfidenceInputs), MaxFields)

\* a direct call with one proposed field at most, which may hold a numeric
\* string, an int beyond the range of float, "" or False, and a schema whose field X
\* lists up to MaxRules rule names, registered or not
InitRules ==
    /\ template_type \in TemplateTypeInputs
    /\ template_schema \in
          { [sections |-> << Section("custom", << FieldDef("X", required, rules) >>) >>] :
              required \in BOOLEAN, rules \in SeqsUpTo(RuleNameInputs, MaxRules) }
    /\ fields \in SeqsUpTo(FieldInputs({"X"},
                                       ValueInputs \cup {PyStr("10"), PyNum(10 * Unit),
                                                          PyHugeInt(1), PyStr(""),
                                                          PyBool(FALSE)},
                                       ConfidenceInputs \cup {Hundredths(90)}), 1)

\* a whole amount, as a value
Amount(units) == PyNum(units * Unit)

\* a CR1 request whose generation output proposes the CET1 components
\* CR1_010_010 and CR1_020_010, the adjustments and the reported total
InitCet1 ==
    /\ template_type = OWN_FUNDS_CR1
    /\ template_schema = GetTemplateSchema(OWN_FUNDS_CR1)
    /\ \E capital \in { Amount(100), Amount(101) },
          retained \in { Amount(50), PyNone },
          adjustments \in { Amount(-20), Amount(0), PyNone },
          reported \in { PyNone, Amount(128), Amount(129), Amount(130),
                         Amount(131), Amount(132), Amount(135),
                         PyNum(Hundredths(12899)) } :
          fields = << TemplateField("CR1_010_010", capital, Hundredths(90)),
                      TemplateField("CR1_020_010", retained, Hundredths(90)),
                      TemplateField("CR1_100_010", adjustments, Hundredths(90)),
                      TemplateField("CR1_500_010", reported, Hundredths(90)) >>

\* a CR1 request whose generation output proposes one CET1 component and the
\* chain of totals: CET1, AT1, Tier 1, Tier 2 and own funds
InitTotals ==
    /\ template_type = OWN_FUNDS_CR1
    /\ template_schema = GetTemplateSchema(OWN_FUNDS_CR1)
    /\ \E cet1 \in { PyNone, Amount(100), Amount(135), Amount(-5) },
          at1 \in { PyNone, Amount(10) },
          tier1 \in { PyNone, Amount(110), Amount(145), Amount(5),
                      PyNum(Hundredths(14650)) },
          tier2 \in { PyNone, Amount(20) },
          own_funds \in { PyNone, Amount(130), Amount(165), Amount(25) } :
          fields = << TemplateField("CR1_010_010", Amount(100), Hundredths(90)),
                      TemplateField("CR1_500_010", cet1, Hundredths(90)),
                      TemplateField("CR1_150_010", at1, Hundredths(90)),
                      TemplateField("CR1_600_010", tier1, Hundredths(90)),
                      TemplateField("CR1_200_010", tier2, Hundredths(90)),
                      TemplateField("CR1_700_010", own_funds, Hundredths(90)) >>

Init ==
    /\ InitCatalog \/ InitCustom \/ InitRules \/ InitCet1 \/ InitTotals
    /\ per_field_issues = << >>
    /\ issues = << >>
    /\ raised = FALSE
    /\ summary = NoSummary
    /\ rule_call = NoRuleCall
    /\ field_ids = << >>
    /\ NoConcurrentCalls
    /\ NoQuery
    /\ pc = "request"

\* validate_fields returns its findings, or raises
ValidateFields ==
    /\ pc = "request"
    /\ LET r == ValidateFieldsResult(fields, template_type, template_schema)
       IN  /\ raised' = r.raised
           /\ issues' = r.issues
           /\ per_field_issues' = r.per_field
           /\ pc' = IF ~r.walked THEN "raised_in_rules"
                    ELSE IF r.raised THEN "raised"
                    ELSE "validated"
    /\ UNCHANGED <<fields, template_type, template_schema, summary, rule_call,
                   field_ids, concurrent_vars, query_vars>>

\* generate_validation_summary on the findings returned
GenerateValidationSummary ==
    /\ pc = "validated"
    /\ summary' = ValidationSummary(issues)
    /\ pc' = "done"
    /\ UNCHANGED <<fields, template_type, template_schema, per_field_issues,
                   issues, raised, rule_call, field_ids, concurrent_vars, query_vars>>

\* get_all_field_ids for the template type of the request
ListFieldIds ==
    /\ pc = "request"
    /\ field_ids' = GetAllFieldIds(template_type)
    /\ pc' = "field_ids_listed"
    /\ UNCHANGED <<fields, template_type, template_schema, per_field_issues,
                   issues, raised, summary, rule_call, concurrent_vars, query_vars>>

Next == ValidateFields \/ GenerateValidationSummary \/ ListFieldIds

Spec == Init /\ [][Next]_vars

(***************************************************************************)
(* generate_validation_summary on any list of findings                     *)
(***************************************************************************)
\* longest list of findings handed to generate_validation_summary
MaxIssues == 4

\* ValidationIssue.severity is a str: the three documented values and another
SeverityInputs == {"error", "warning", "info", "critical"}

InitSummary ==
    /\ issues \in SeqsUpTo({ ValidationIssue(s, "X", "some_rule") : s \in SeverityInputs },
                           MaxIssues)
    /\ per_field_issues = << >>
    /\ fields = << >>
    /\ template_type = OWN_FUNDS_CR1
    /\ template_schema = GetTemplateSchema(OWN_FUNDS_CR1)
    /\ raised = FALSE
    /\ summary = NoSummary
    /\ rule_call = NoRuleCall
    /\ field_ids = << >>
    /\ NoConcurrentCalls
    /\ NoQuery
    /\ pc = "validated"

NextSummary == GenerateValidationSummary

SpecSummary == InitSummary /\ [][NextSummary]_vars

(***************************************************************************)
(* A rule predicate of the registry called on any value                    *)
(***************************************************************************)
\* values handed to a rule predicate: None, booleans, numbers, strings that
\* spell a number or do not, and ints beyond the range of float
PredicateValueInputs ==
    { PyNone, PyBool(TRUE), PyBool(FALSE), PyHugeInt(1), PyHugeInt(-1) }
    \cup { PyNum(Hundredths(h)) :
             h \in {-500, -201, -100, -1, 0, 1, 100, 201, 500, 1000} }
    \cup { PyStr(s) : s \in {"abc", "10", "0", "-5", ""} }

InitPredicate ==
    /\ rule_call \in { [rule_name |-> r, value |-> v, outcome |-> PyNone] :
                          r \in RuleNames, v \in PredicateValueInputs }
    /\ fields = << >>
    /\ template_type = OWN_FUNDS_CR1
    /\ template_schema = GetTemplateSchema(OWN_FUNDS_CR1)
    /\ per_field_issues = << >>
    /\ issues = << >>
    /\ raised = FALSE
    /\ summary = NoSummary
    /\ NoConcurrentCalls
    /\ NoQuery
    /\ field_ids = << >>
    /\ pc = "rule_call"

\* self.validation_rules[rule_name](value)
CallRulePredicate ==
    /\ pc = "rule_call"
    /\ rule_call' = [rule_call EXCEPT
                        !.outcome = ApplyRule(rule_call.rule_name, rule_call.value)]
    /\ pc' = "rule_done"
    /\ UNCHANGED <<fields, template_type, template_schema, per_field_issues,
                   issues, raised, summary, field_ids, concurrent_vars, query_vars>>

NextPredicate == CallRulePredicate

SpecPredicate == InitPredicate /\ [][NextPredicate]_vars

(***************************************************************************)
(* Concurrent requests on the shared service instances: each process_query *)
(* runs its validation step statement by statement, interleaved with the   *)
(* others.  A list the code creates is an object of the heap "lists"; a    *)
(* local variable that names it holds its address.                         *)
(***************************************************************************)
\* number of concurrent requests
MaxRequests == 2

Requests == 1..MaxRequests

\* what a request asks for: the template type and the fields generated for it
ConcurrentInputs ==
    { [template_type |-> OWN_FUNDS_CR1, fields |-> fs] :
        fs \in { << TemplateField("CR1_500_010", PyNum(Hundredths(-100)), Hundredths(49)) >>,
                 << TemplateField("CR1_500_010", PyStr("abc"), Hundredths(49)) >> } }
    \cup { [template_type |-> CAPITAL_REQUIREMENTS_CR2, fields |-> fs] :
        fs \in { << >>,
                 << TemplateField("CR2_010_010", PyNum(0), Hundredths(49)) >> } }
    \cup { [template_type |-> UNKNOWN_TEMPLATE, fields |-> << >>] }

\* the address of no list
NoList == 0

InitConcurrent ==
    /\ templates = Templates
    /\ calls \in [Requests ->
                     { [template_type |-> in.template_type, fields |-> in.fields,
                        template_schema |-> "", next_def |-> 0, issues |-> NoList,
                        summary |-> NoSummary, pc |-> "request"] :
                       in \in ConcurrentInputs }]
    /\ lists = [cell \in {NoList} \cup Requests |-> << >>]
    /\ fields = << >>
    /\ template_type = OWN_FUNDS_CR1
    /\ template_schema = GetTemplateSchema(OWN_FUNDS_CR1)
    /\ per_field_issues = << >>
    /\ issues = << >>
    /\ raised = FALSE
    /\ summary = NoSummary
    /\ rule_call = NoRuleCall
    /\ field_ids = << >>
    /\ NoQuery
    /\ pc = "concurrent"

\* the schema a local template_schema names: the catalog's own dict of that
\* template type, or the {} that get_template_schema returns for any other
SchemaAt(key) ==
    IF key \in DOMAIN templates THEN templates[key] ELSE EmptySchema

\* NewList with the list kept on the service instance, one for all requests
NewList_OnSelf(r) == NoList

\* "issues = []" of validate_fields: a new list for each call
NewList(r) == r

\* process_query: template_schema = template_service.get_template_schema(...)
GetSchema(r) ==
    /\ calls[r].pc = "request"
    /\ calls' = [calls EXCEPT ![r].template_schema = calls[r].template_type,
                               ![r].pc = "validate_fields"]
    /\ UNCHANGED <<templates, lists>>

\* validate_fields: issues = [], before the loops
BeginValidateFields(r) ==
    /\ calls[r].pc = "validate_fields"
    /\ lists' = [lists EXCEPT ![NewList(r)] = << >>]
    /\ calls' = [calls EXCEPT ![r].issues = NewList(r),
                               ![r].next_def = 1,
                               ![r].pc = "walk"]
    /\ UNCHANGED templates

\* validate_fields: one pass of the loop body, for the next field definition
ValidateFieldDef(r) ==
    LET c == calls[r]
        defs == SchemaFieldDefs(SchemaAt(c.template_schema))
    IN  /\ c.pc = "walk"
        /\ c.next_def <= Len(defs)
        /\ LET found == FieldDefIssues(defs[c.next_def], FieldMap(c.fields))
           IN  IF found.raised
               THEN /\ calls' = [calls EXCEPT ![r].pc = "raised"]
                    /\ UNCHANGED lists
               ELSE /\ lists' = [lists EXCEPT ![c.issues] = @ \o found.issues]
                    /\ calls' = [calls EXCEPT ![r].next_def = @ + 1]
        /\ UNCHANGED templates

\* validate_fields: issues.extend(self._validate_cross_field_rules(...)),
\* then "return issues"
ApplyCrossFieldRules(r) ==
    LET c == calls[r]
        schema == SchemaAt(c.template_schema)
    IN  /\ c.pc = "walk"
        /\ c.next_def > Len(SchemaFieldDefs(schema))
        /\ LET cross == ValidateCrossFieldRules(c.fields, c.template_type, schema)
           IN  IF cross.raised
               THEN /\ calls' = [calls EXCEPT ![r].pc = "raised"]
                    /\ UNCHANGED lists
               ELSE /\ lists' = [lists EXCEPT ![c.issues] = @ \o cross.issues]
                    /\ calls' = [calls EXCEPT ![r].pc = "validated"]
        /\ UNCHANGED templates

\* process_query: generate_validation_summary(validation_issues)
SummariseIssues(r) ==
    /\ calls[r].pc = "validated"
    /\ calls' = [calls EXCEPT ![r].summary = ValidationSummary(lists[calls[r].issues]),
                               ![r].pc = "done"]
    /\ UNCHANGED <<templates, lists>>

NextConcurrent ==
    /\ \E r \in Requests :
          \/ GetSchema(r)
          \/ BeginValidateFields(r)
          \/ ValidateFieldDef(r)
          \/ ApplyCrossFieldRules(r)
          \/ SummariseIssues(r)
    /\ UNCHANGED <<fields, template_type, template_schema, per_field_issues,
                   issues, raised, summary, rule_call, field_ids, pc, query_vars>>

SpecConcurrent == InitConcurrent /\ [][NextConcurrent]_vars

(***************************************************************************)
(* process_query: retrieval, generation, the mapping of the generation     *)
(* output to template fields, validation and the response.  pc is          *)
(* "received", then "retrieved", "generated", "mapped", "checked" and      *)
(* "responded", or "http_500" from any step that raises.                   *)
(***************************************************************************)
\* the most field entries in a generation output
MaxGenerated == 2

\* a key the dict does not hold
KeyAbsent == [kind |-> "absent", n |-> 0, s |-> ""]

\* dict.get(key, default), for the entry at that key
DictGet(entry, default) == IF entry = KeyAbsent THEN default ELSE entry

\* one entry of llm_output["fields"]; it holds field_id and field_name
FieldData(id, value, confidence_score, regulatory_references) ==
    [field_id |-> id, value |-> value, confidence_score |-> confidence_score,
     regulatory_references |-> regulatory_references]

\* AuditLogEntry, without its timestamp and justification
AuditLogEntry(id, ref) == [field_id |-> id, regulatory_reference |-> ref]

\* request.template_type is a TemplateType
QueryTemplateTypes == { OWN_FUNDS_CR1, CAPITAL_REQUIREMENTS_CR2 }

\* the field ids the generation proposes for a template type
GeneratedFieldIds(t) ==
    IF t = OWN_FUNDS_CR1 THEN { "CR1_010_010", "CR1_500_010" }
    ELSE { "CR2_010_010", "CR2_100_010" }

\* the entries the generation may return: null, a number or a string as value,
\* with its references, and a confidence_score that is absent, null or 0.49
GeneratedFieldData(t) ==
    { FieldData(id, v.value, c, v.refs) :
        id \in GeneratedFieldIds(t),
        v \in { [value |-> PyNone, refs |-> << >>],
                [value |-> Amount(100), refs |-> << "CRR Article 26" >>],
                [value |-> PyStr("abc"), refs |-> << "CRR Article 92" >>] },
        c \in { KeyAbsent, PyNone, PyNum(Hundredths(49)) } }

\* the dicts generate_structured_output may return: without the key "fields",
\* or with a list of entries
GenerationOutputs(t) ==
    { [returned |-> TRUE, has_fields |-> FALSE, fields |-> << >>] }
    \cup { [returned |-> TRUE, has_fields |-> TRUE, fields |-> fs] :
             fs \in SeqsUpTo(GeneratedFieldData(t), MaxGenerated) }

\* the lists retrieve_relevant_documents may return, by the documents' names
RetrievalOutputs == { << >>, << "PRA Rulebook" >> }

\* BuildTemplateField with the default 0.0 for 0.5
BuildTemplateField_DefaultZero(field_data) ==
    LET confidence_score == DictGet(field_data.confidence_score, PyNum(0))
    IN  IF ~IsNum(confidence_score) THEN Raised
        ELSE Returned(<< TemplateField(field_data.field_id, field_data.value,
                                       confidence_score.n) >>)

\* TemplateField(field_id=..., value=field_data.get("value"), ...,
\* confidence_score=field_data.get("confidence_score", 0.5)): the model
\* class declares confidence_score a float and rejects None
BuildTemplateField(field_data) ==
    LET confidence_score == DictGet(field_data.confidence_score, PyNum(Unit \div 2))
    IN  IF ~IsNum(confidence_score) THEN Raised
        ELSE Returned(<< TemplateField(field_data.field_id, field_data.value,
                                       confidence_score.n) >>)

\* the loop over llm_output.get("fields", []): template_fields
MapLlmOutput(output) ==
    InOrder([i \in 1..Len(output.fields) |-> BuildTemplateField(output.fields[i])])

\* the audit log entries of the loop: one for each reference of each entry
RECURSIVE AuditLogOf(_)
AuditLogOf(field_datas) ==
    IF field_datas = << >> THEN << >>
    ELSE LET field_data == Head(field_datas)
             refs == field_data.regulatory_references
         IN  [k \in 1..Len(refs) |-> AuditLogEntry(field_data.field_id, refs[k])]
             \o AuditLogOf(Tail(field_datas))

InitQuery ==
    /\ template_type \in QueryTemplateTypes
    /\ template_schema = EmptySchema
    /\ fields = << >>
    /\ per_field_issues = << >>
    /\ issues = << >>
    /\ raised = FALSE
    /\ summary = NoSummary
    /\ rule_call = NoRuleCall
    /\ field_ids = << >>
    /\ NoConcurrentCalls
    /\ NoQuery
    /\ pc = "received"

\* step 1: retrieve_relevant_documents returns a list, or raises
RetrieveRelevantDocuments ==
    /\ pc = "received"
    /\ \E returns \in BOOLEAN, docs \in RetrievalOutputs :
          IF returns
          THEN /\ relevant_docs' = [returned |-> TRUE, docs |-> docs]
               /\ pc' = "retrieved"
          ELSE /\ relevant_docs' = relevant_docs
               /\ pc' = "http_500"
    /\ UNCHANGED <<fields, template_type, template_schema, per_field_issues,
                   issues, raised, summary, rule_call, field_ids, concurrent_vars,
                   llm_output, audit_log>>

\* step 2: generate_structured_output returns a dict, or raises
GenerateStructuredOutput ==
    /\ pc = "retrieved"
    /\ \E returns \in BOOLEAN, output \in GenerationOutputs(template_type) :
          IF returns
          THEN /\ llm_output' = output
               /\ pc' = "generated"
          ELSE /\ llm_output' = llm_output
               /\ pc' = "http_500"
    /\ UNCHANGED <<fields, template_type, template_schema, per_field_issues,
                   issues, raised, summary, rule_call, field_ids, concurrent_vars,
                   relevant_docs, audit_log>>

\* step 3: the generation output mapped to template fields and audit log
\* entries, or the exception of a TemplateField that cannot be built
MapToTemplateFields ==
    /\ pc = "generated"
    /\ LET r == MapLlmOutput(llm_output)
       IN  IF r.raised
           THEN /\ pc' = "http_500"
                /\ UNCHANGED <<fields, audit_log>>
           ELSE /\ fields' = r.issues      \* the list the loop has built
                /\ audit_log' = AuditLogOf(llm_output.fields)
                /\ pc' = "mapped"
    /\ UNCHANGED <<template_type, template_schema, per_field_issues,
                   issues, raised, summary, rule_call, field_ids, concurrent_vars,
                   relevant_docs, llm_output>>

\* step 4: get_template_schema, then validate_fields on template_fields
ValidateOutput ==
    /\ pc = "mapped"
    /\ template_schema' = GetTemplateSchema(template_type)
    /\ LET r == ValidateFieldsResult(fields, template_type, template_schema')
       IN  /\ raised' = r.raised
           /\ issues' = r.issues
           /\ per_field_issues' = r.per_field
           /\ pc' = IF r.raised THEN "http_500" ELSE "checked"
    /\ UNCHANGED <<fields, template_type, summary, rule_call, field_ids,
                   concurrent_vars, query_vars>>

\* step 5: the response, with generate_validation_summary of the findings
BuildResponse ==
    /\ pc = "checked"
    /\ summary' = ValidationSummary(issues)
    /\ pc' = "responded"
    /\ UNCHANGED <<fields, template_type, template_schema, per_field_issues,
                   issues, raised, rule_call, field_ids, concurrent_vars, query_vars>>

NextQuery ==
    \/ RetrieveRelevantDocuments
    \/ GenerateStructuredOutput
    \/ MapToTemplateFields
    \/ ValidateOutput
    \/ BuildResponse

SpecQuery == InitQuery /\ [][NextQuery]_vars

(***************************************************************************)
(* Vocabulary of the properties, stated on the call and its result.        *)
(***************************************************************************)
\* validate_fields has returned a list
HasReturned == pc \in {"validated", "done"}

\* the field definitions of the schema of the call
DefsOfCall ==
    UNION { { template_schema.sections[i].fields[j] :
                j \in 1..Len(template_schema.sections[i].fields) } :
            i \in 1..Len(template_schema.sections) }

\* the positions of the proposed fields with this field_id
EntriesFor(id) == { i \in 1..Len(fields) : fields[i].field_id = id }

\* the proposed field that matches this field_id: the last one in the list
LastEntry(id) ==
    fields[CHOOSE i \in EntriesFor(id) : \A j \in EntriesFor(id) : j <= i]

MissingOrNull(id) == EntriesFor(id) = {} \/ IsNone(LastEntry(id).value)

\* the positions of the findings returned for this field_id and rule
IssuesWith(id, rule) ==
    { k \in 1..Len(issues) : issues[k].field_id = id /\ issues[k].rule = rule }

\* validate_fields has run its per-field loops
HasWalked == pc \in {"validated", "raised", "done"}

\* validate_fields has returned or raised
HasEnded == pc \in {"validated", "raised", "raised_in_rules", "done"}

\* the positions of the findings of the per-field loops for this field_id and rule
PerFieldIssuesWith(id, rule) ==
    { k \in 1..Len(per_field_issues) :
        per_field_issues[k].field_id = id /\ per_field_issues[k].rule = rule }

\* the positions of the findings returned for this field_id
IssuesFor(id) == { k \in 1..Len(issues) : issues[k].field_id = id }

\* the rule names a rule predicate reports under
PredicateRules == RuleNameInputs \ {"required_field"}

(***************************************************************************)
(* C1                                                                      *)
(***************************************************************************)
\* C1: every required field definition whose proposed field is missing or
\* has a null value has exactly one finding with rule required_field, of
\* severity error, and no finding of a rule predicate: among the findings of
\* the per-field loops of every call, and in the list of every call that
\* returns one.
C1_RequiredFieldFinding ==
    \A d \in DefsOfCall :
        (d.required /\ MissingOrNull(d.field_id)) =>
            /\ HasWalked =>
                  /\ Cardinality(PerFieldIssuesWith(d.field_id, "required_field")) = 1
                  /\ \A k \in PerFieldIssuesWith(d.field_id, "required_field") :
                         per_field_issues[k].severity = "error"
                  /\ \A r \in PredicateRules : PerFieldIssuesWith(d.field_id, r) = {}
            /\ HasReturned =>
                  /\ Cardinality(IssuesWith(d.field_id, "required_field")) = 1
                  /\ \A k \in IssuesWith(d.field_id, "required_field") :
                         issues[k].severity = "error"
                  /\ \A r \in PredicateRules : IssuesWith(d.field_id, r) = {}

\* a required field with a failing rule is proposed with a null value and
\* low confidence, and the call has returned
C1_Witness ==
    /\ HasReturned
    /\ \E d \in DefsOfCall :
          /\ d.required
          /\ d.validation_rules = << "must_be_positive" >>
          /\ EntriesFor(d.field_id) # {}
          /\ IsNone(LastEntry(d.field_id).value)
          /\ LastEntry(d.field_id).confidence_score = Hundredths(49)
          /\ Cardinality(IssuesFor(d.field_id)) = 1

(***************************************************************************)
(* C2                                                                      *)
(***************************************************************************)
\* C2: every proposed field that matches a field definition and has a
\* confidence below 0.5 has a confidence_threshold warning in the returned
\* list, whatever its value and the outcome of the other checks.
C2_LowConfidenceAlwaysWarned ==
    HasReturned =>
        \A d \in DefsOfCall :
            (/\ EntriesFor(d.field_id) # {}
             /\ LastEntry(d.field_id).confidence_score < Unit \div 2) =>
                \E k \in IssuesWith(d.field_id, "confidence_threshold") :
                    issues[k].severity = "warning"

(***************************************************************************)
(* C3                                                                      *)
(***************************************************************************)
\* C3: validate_fields never raises: every call completes with a list.
C3_NeverRaises == pc \notin {"raised", "raised_in_rules"} /\ ~raised

(***************************************************************************)
(* C4                                                                      *)
(***************************************************************************)
\* the positions of the proposed fields with this field_id and a value
PopulatedEntries(id) == { i \in EntriesFor(id) : ~IsNone(fields[i].value) }

\* the total is reported
ReportedPresent(id) == PopulatedEntries(id) # {}

\* the amount proposed for this field_id, 0 when none is
AmountOf(id) ==
    IF PopulatedEntries(id) = {} THEN 0
    ELSE fields[CHOOSE i \in PopulatedEntries(id) :
                   \A j \in PopulatedEntries(id) : j <= i].value.n

\* the four formula checks: template type, rule, reported total, documented formula
FormulaChecks ==
    { [template |-> OWN_FUNDS_CR1, rule |-> "cr1_cet1_calculation",
       reported |-> "CR1_500_010",
       computed |-> AmountOf("CR1_010_010") + AmountOf("CR1_020_010")
                    + AmountOf("CR1_030_010") + AmountOf("CR1_040_010")
                    + AmountOf("CR1_050_010") + AmountOf("CR1_100_010")],
      [template |-> OWN_FUNDS_CR1, rule |-> "cr1_tier1_calculation",
       reported |-> "CR1_600_010",
       computed |-> AmountOf("CR1_500_010") + AmountOf("CR1_150_010")],
      [template |-> OWN_FUNDS_CR1, rule |-> "cr1_own_funds_calculation",
       reported |-> "CR1_700_010",
       computed |-> AmountOf("CR1_600_010") + AmountOf("CR1_200_010")],
      [template |-> CAPITAL_REQUIREMENTS_CR2, rule |-> "cr2_rwa_calculation",
       reported |-> "CR2_100_010",
       computed |-> AmountOf("CR2_010_010") + AmountOf("CR2_020_010")
                    + ((AmountOf("CR2_050_010") + AmountOf("CR2_060_010")) * 25) \div 2] }

\* C4: in the list validate_fields returns, each formula check whose total is
\* reported has its error if and only if computed and reported differ by
\* strictly more than 1.
C4_StrictTolerance ==
    HasReturned =>
        \A c \in FormulaChecks :
            (c.template = template_type /\ ReportedPresent(c.reported)) =>
                /\ (IssuesWith(c.reported, c.rule) # {})
                      <=> (Abs(c.computed - AmountOf(c.reported)) > Unit)
                /\ Cardinality(IssuesWith(c.reported, c.rule)) <= 1
                /\ \A k \in IssuesWith(c.reported, c.rule) :
                       issues[k].severity = "error"

\* CR1 call: reported CET1 differs from its components by exactly 1 and has no
\* error, reported Tier 1 differs from CET1 + AT1 by 1.01 and has the error
C4_Witness ==
    /\ HasReturned
    /\ template_type = OWN_FUNDS_CR1
    /\ ReportedPresent("CR1_500_010") /\ ReportedPresent("CR1_600_010")
    /\ Abs(AmountOf("CR1_010_010") + AmountOf("CR1_100_010")
           - AmountOf("CR1_500_010")) = Hundredths(100)
    /\ IssuesWith("CR1_500_010", "cr1_cet1_calculation") = {}
    /\ Abs(AmountOf("CR1_500_010") - AmountOf("CR1_600_010")) = Hundredths(101)
    /\ IssuesWith("CR1_600_010", "cr1_tier1_calculation") # {}

(***************************************************************************)
(* C5                                                                      *)
(***************************************************************************)
\* C5: the summary is valid if and only if no finding has severity error,
\* and total_issues is the length of the list.
C5_ValidIffNoErrors ==
    pc = "done" =>
        /\ summary.is_valid <=> (\A k \in 1..Len(issues) : issues[k].severity # "error")
        /\ summary.total_issues = Len(issues)

\* a summary of warnings and info findings without an error, which is valid
C5_Witness ==
    /\ pc = "done"
    /\ \E k \in 1..Len(issues) : issues[k].severity = "warning"
    /\ \E k \in 1..Len(issues) : issues[k].severity = "info"
    /\ \A k \in 1..Len(issues) : issues[k].severity # "error"
    /\ summary.is_valid
    /\ summary.total_issues >= 2

(***************************************************************************)
(* C6                                                                      *)
(***************************************************************************)
\* C6: the returned list has no finding for an optional field definition for
\* which no field is proposed.
C6_AbsentOptionalNoFinding ==
    HasReturned =>
        \A d \in DefsOfCall :
            (~d.required /\ EntriesFor(d.field_id) = {}) => IssuesFor(d.field_id) = {}

(***************************************************************************)
(* C7                                                                      *)
(***************************************************************************)
\* C7: a matched field with a value has no confidence_threshold warning at
\* confidence 0.5 and exactly one at 0.49: among the findings of the per-field
\* loops of every call, and in the list of every call that returns one.
C7_StrictConfidenceBoundary ==
    \A d \in DefsOfCall :
        ~MissingOrNull(d.field_id) =>
            LET c == LastEntry(d.field_id).confidence_score
                walked == PerFieldIssuesWith(d.field_id, "confidence_threshold")
                warnings == IssuesWith(d.field_id, "confidence_threshold")
            IN  /\ HasWalked =>
                      /\ c = Hundredths(50) => walked = {}
                      /\ c = Hundredths(49) =>
                            /\ Cardinality(walked) = 1
                            /\ \A k \in walked :
                                   per_field_issues[k].severity = "warning"
                /\ HasReturned =>
                      /\ c = Hundredths(50) => warnings = {}
                      /\ c = Hundredths(49) =>
                            /\ Cardinality(warnings) = 1
                            /\ \A k \in warnings : issues[k].severity = "warning"

\* a matched field with a value and confidence 0.49 that got its one warning
C7_Witness ==
    /\ HasReturned
    /\ \E d \in DefsOfCall :
          /\ ~MissingOrNull(d.field_id)
          /\ LastEntry(d.field_id).confidence_score = Hundredths(49)
          /\ Cardinality(IssuesWith(d.field_id, "confidence_threshold")) = 1

(***************************************************************************)
(* C8                                                                      *)
(***************************************************************************)
\* the rules of the cross-field checks
CrossFieldRuleNames ==
    { "cr1_cet1_calculation", "cr1_tier1_calculation", "cr1_own_funds_calculation",
      "cr1_minimum_cet1", "cr2_rwa_calculation", "cr2_credit_risk_required" }

\* C8: a template type outside the catalog has the empty schema; in a call
\* with such a type the cross-field rules do not raise and add no finding, and
\* with the empty schema the call does not raise and returns no finding.
C8_UnknownTemplateNoFindings ==
    /\ GetTemplateSchema(UNKNOWN_TEMPLATE).sections = << >>
    /\ (template_type \notin TemplateType /\ HasEnded) =>
          /\ pc # "raised"
          /\ \A k \in 1..Len(issues) : issues[k].rule \notin CrossFieldRuleNames
          /\ template_schema.sections = << >> => ~raised /\ issues = << >>

\* a call with an unknown type, the empty schema and a string proposed for a
\* field the CR1 formulas read has returned the empty list
C8_Witness ==
    /\ HasReturned
    /\ template_type = UNKNOWN_TEMPLATE
    /\ template_schema = GetTemplateSchema(template_type)
    /\ \E i \in EntriesFor("CR1_500_010") : IsStr(fields[i].value)
    /\ issues = << >>

(***************************************************************************)
(* C9                                                                      *)
(***************************************************************************)
\* a schema without the rule names that are not registered
WithoutUnregisteredRules(schema) ==
    [sections |->
        [i \in 1..Len(schema.sections) |->
            [section_id |-> schema.sections[i].section_id,
             fields |->
                [j \in 1..Len(schema.sections[i].fields) |->
                    LET d == schema.sections[i].fields[j]
                    IN  FieldDef(d.field_id, d.required,
                                 SelectSeq(d.validation_rules,
                                           LAMBDA r : r \in RuleNames))]]]]

\* the definition lists a rule name that is not registered
ListsUnregisteredRule(d) ==
    \E i \in 1..Len(d.validation_rules) : d.validation_rules[i] \notin RuleNames

\* C9: a rule name that is not registered is skipped: the call ends as it
\* does with that name removed from the schema, no finding carries the name,
\* and a field whose definition lists it still gets the must_be_positive error
\* and the confidence warning it has earned.
C9_UnknownRuleSkipped ==
    HasEnded =>
        /\ LET r == ValidateFieldsResult(fields, template_type,
                                         WithoutUnregisteredRules(template_schema))
           IN  /\ r.raised = raised /\ r.issues = issues
               /\ r.per_field = per_field_issues
               /\ r.walked = (pc # "raised_in_rules")
        /\ \A k \in 1..Len(issues) : issues[k].rule \notin (RuleNameInputs \ RuleNames)
        /\ HasReturned =>
              \A d \in DefsOfCall :
                  (ListsUnregisteredRule(d) /\ ~MissingOrNull(d.field_id)) =>
                      LET e == LastEntry(d.field_id)
                      IN  /\ (/\ \E i \in 1..Len(d.validation_rules) :
                                     d.validation_rules[i] = "must_be_positive"
                              /\ IsNum(e.value) /\ e.value.n <= 0)
                                => IssuesWith(d.field_id, "must_be_positive") # {}
                          /\ e.confidence_score < Unit \div 2
                                => IssuesWith(d.field_id, "confidence_threshold") # {}

\* a field whose definition lists an unregistered rule before must_be_positive
\* is proposed with value 0 and confidence 0.49: the call has returned the
\* must_be_positive error and the confidence warning, and nothing else
C9_Witness ==
    /\ HasReturned
    /\ \E d \in DefsOfCall :
          /\ d.validation_rules = << "must_be_integer", "must_be_positive" >>
          /\ ~MissingOrNull(d.field_id)
          /\ LastEntry(d.field_id).value = PyNum(0)
          /\ LastEntry(d.field_id).confidence_score = Hundredths(49)
          /\ Cardinality(IssuesWith(d.field_id, "must_be_positive")) = 1
          /\ Cardinality(IssuesWith(d.field_id, "confidence_threshold")) = 1
          /\ Cardinality(IssuesFor(d.field_id)) = 2

(***************************************************************************)
(* C10                                                                     *)
(***************************************************************************)
\* the proposed fields whose field_id matches a field definition of the schema
MatchedFields ==
    SelectSeq(fields, LAMBDA f : \E d \in DefsOfCall : d.field_id = f.field_id)

\* C10: the list validate_fields returns is the list it returns for the same
\* call without the proposed fields that match no field definition.
C10_UnmatchedInvisible ==
    HasReturned =>
        LET r == ValidateFieldsResult(MatchedFields, template_type, template_schema)
        IN  ~r.raised /\ r.issues = issues

(***************************************************************************)
(* C11                                                                     *)
(***************************************************************************)
\* the amount is proposed with this whole value
Proposed(id, units) == ReportedPresent(id) /\ AmountOf(id) = units * Unit

\* the six inputs of the CET1 check, added with their sign
SumOfCet1Inputs ==
    AmountOf("CR1_010_010") + AmountOf("CR1_020_010") + AmountOf("CR1_030_010")
    + AmountOf("CR1_040_010") + AmountOf("CR1_050_010") + AmountOf("CR1_100_010")

FormulaInputs ==
    { [template |-> OWN_FUNDS_CR1, rule |-> "cr1_cet1_calculation",
       reported |-> "CR1_500_010",
       plain |-> {"CR1_010_010", "CR1_020_010", "CR1_030_010", "CR1_040_010",
                  "CR1_050_010", "CR1_100_010"},
       scaled |-> {}],
      [template |-> OWN_FUNDS_CR1, rule |-> "cr1_tier1_calculation",
       reported |-> "CR1_600_010",
       plain |-> {"CR1_500_010", "CR1_150_010"}, scaled |-> {}],
      [template |-> OWN_FUNDS_CR1, rule |-> "cr1_own_funds_calculation",
       reported |-> "CR1_700_010",
       plain |-> {"CR1_600_010", "CR1_200_010"}, scaled |-> {}],
      [template |-> CAPITAL_REQUIREMENTS_CR2, rule |-> "cr2_rwa_calculation",
       reported |-> "CR2_100_010",
       plain |-> {"CR2_010_010", "CR2_020_010"},
       scaled |-> {"CR2_050_010", "CR2_060_010"}] }

\* the sum of the amounts of the ids for which a value is proposed
RECURSIVE SumOfProposed(_)
SumOfProposed(ids) ==
    IF ids = {} THEN 0
    ELSE LET id == CHOOSE x \in ids : TRUE
             rest == SumOfProposed(ids \ {id})
         IN  IF ReportedPresent(id)
             THEN fields[CHOOSE i \in PopulatedEntries(id) :
                            \A j \in PopulatedEntries(id) : j <= i].value.n + rest
             ELSE rest

\* C12: in the list validate_fields returns, a formula check whose reported
\* total has no proposed value has no finding, and a formula check whose total
\* is reported has its finding if and only if the total differs by more than 1
\* from the formula over the inputs that have a proposed value, an input
\* without one counting as 0.
C12_MissingInputsAndTotals ==
    HasReturned =>
        \A c \in FormulaInputs :
            c.template = template_type =>
                LET computed == SumOfProposed(c.plain)
                                + (SumOfProposed(c.scaled) * 25) \div 2
                    found == IssuesWith(c.reported, c.rule)
                IN  /\ ~ReportedPresent(c.reported) => found = {}
                    /\ ReportedPresent(c.reported) =>
                          (found # {} <=>
                             Abs(computed - SumOfProposed({c.reported})) > Unit)

\* a CR1 call has returned in which the reported CET1 is 2.01 and the only
\* proposed value: the CET1 check, all inputs missing, has its finding against
\* 0.00, and the Tier 1 and own funds checks, their totals missing, have none
C12_Witness ==
    /\ HasReturned /\ template_type = OWN_FUNDS_CR1
    /\ \A i \in 1..Len(fields) :
          fields[i].field_id # "CR1_500_010" => IsNone(fields[i].value)
    /\ \E i \in 1..Len(fields) : IsNone(fields[i].value)
    /\ ReportedPresent("CR1_500_010")
    /\ \E k \in IssuesWith("CR1_500_010", "cr1_cet1_calculation") :
          issues[k].message[4] = "0.00"
    /\ IssuesWith("CR1_600_010", "cr1_tier1_calculation") = {}
    /\ IssuesWith("CR1_700_010", "cr1_own_funds_calculation") = {}

(***************************************************************************)
(* C13                                                                     *)
(***************************************************************************)
\* the schema whose only field X is required with rule must_be_positive
ScenarioASchema ==
    [sections |-> << Section("custom", << FieldDef("X", TRUE, <<"must_be_positive">>) >>) >>]

\* the single proposed field X = 10 with confidence 0.9
ScenarioAFields == << TemplateField("X", PyNum(10 * Unit), Hundredths(90)) >>

\* C13: the call with that schema and that field returns no finding and its
\* summary is valid, whichever template type is passed.
C13_ScenarioANoFindings ==
    (template_schema = ScenarioASchema /\ fields = ScenarioAFields) =>
        /\ ~raised
        /\ HasReturned => issues = << >>
        /\ pc = "done" => summary.is_valid /\ summary.total_issues = 0

(***************************************************************************)
(* C14                                                                     *)
(***************************************************************************)
\* the value is a number, or spells one, and that number is greater than 0
IsPositiveNumber(v) ==
    \/ IsNum(v) /\ v.n > 0
    \/ IsBool(v) /\ v = PyBool(TRUE)
    \/ IsHugeInt(v) /\ v.n > 0
    \/ v = PyStr("10")

\* C14: must_be_positive returns True or False and never raises, and returns
\* True if and only if the value is coercible to a number greater than 0.
C14_MustBePositive ==
    (pc = "rule_done" /\ rule_call.rule_name = "must_be_positive") =>
        /\ IsBool(rule_call.outcome)
        /\ rule_call.outcome = PyBool(TRUE) <=> IsPositiveNumber(rule_call.value)

(***************************************************************************)
(* C15                                                                     *)
(***************************************************************************)
\* the value is a number, or spells one, and that number is at most 0
IsNumberAtMostZero(v) ==
    \/ IsNum(v) /\ v.n <= 0
    \/ IsBool(v) /\ v = PyBool(FALSE)
    \/ IsHugeInt(v) /\ v.n < 0
    \/ v \in {PyStr("0"), PyStr("-5")}

\* C15: must_be_negative_or_zero returns True or False and never raises, and
\* returns True if and only if the value is null or is coercible to a number
\* that is at most 0.
C15_MustBeNegativeOrZero ==
    (pc = "rule_done" /\ rule_call.rule_name = "must_be_negative_or_zero") =>
        /\ IsBool(rule_call.outcome)
        /\ rule_call.outcome = PyBool(TRUE)
              <=> (IsNone(rule_call.value) \/ IsNumberAtMostZero(rule_call.value))

(***************************************************************************)
(* C16                                                                     *)
(***************************************************************************)
\* what the request gets when it runs alone
Alone(c) ==
    ValidateFieldsResult(c.fields, c.template_type, GetTemplateSchema(c.template_type))

\* every request ends as it ends alone: the same findings in the same order,
\* the same summary, or the same exception
EndsAsAlone ==
    \A r \in DOMAIN calls :
        LET c == calls[r]
        IN  /\ c.pc \in {"validated", "done"} =>
                  ~Alone(c).raised /\ lists[c.issues] = Alone(c).issues
            /\ c.pc = "done" => c.summary = ValidationSummary(Alone(c).issues)
            /\ c.pc = "raised" => Alone(c).raised

\* a step leaves the catalog, the fields of every request and every list that
\* validate_fields has returned as they are
NothingSharedWritten ==
    /\ templates' = templates
    /\ DOMAIN calls' = DOMAIN calls
    /\ \A r \in DOMAIN calls :
          /\ calls'[r].fields = calls[r].fields
          /\ calls'[r].template_type = calls[r].template_type
          /\ calls[r].pc \in {"validated", "done"} =>
                lists'[calls[r].issues] = lists[calls[r].issues]

\* C16: no step of validate_fields, of the cross-field rules or of
\* generate_validation_summary modifies the catalog, the input fields or a
\* returned list, and under every interleaving of the concurrent requests
\* each one ends with the findings and the summary it gets alone.
C16_ConcurrentCallsIsolated == []EndsAsAlone /\ [][NothingSharedWritten]_vars

\* one request has its findings returned and its summary still to come while
\* the other is inside the loops of validate_fields with findings of its own
C16_Witness ==
    /\ DOMAIN calls = Requests
    /\ calls[1].pc = "validated" /\ lists[calls[1].issues] # << >>
    /\ calls[2].pc = "walk" /\ calls[2].next_def > 1
    /\ lists[calls[2].issues] # << >>
    /\ lists[calls[2].issues] # lists[calls[1].issues]

(***************************************************************************)
(* C17                                                                     *)
(***************************************************************************)
\* the places of the field definitions of a schema: section and position
PlacesOf(schema) ==
    UNION { { <<i, j>> : j \in 1..Len(schema.sections[i].fields) } :
            i \in 1..Len(schema.sections) }

DefAt(schema, place) == schema.sections[place[1]].fields[place[2]]

\* C17: the catalog holds the CR1 and the CR2 template; in each, no two field
\* definitions, of the same or of different sections, have the same field_id,
\* and every rule name of every field definition is a key of the registry.
C17_CatalogWellFormed ==
    /\ DOMAIN templates = TemplateType
    /\ \A t \in DOMAIN templates :
          /\ \A p, q \in PlacesOf(templates[t]) :
                DefAt(templates[t], p).field_id = DefAt(templates[t], q).field_id
                    => p = q
          /\ \A p \in PlacesOf(templates[t]) :
                LET rules == DefAt(templates[t], p).validation_rules
                IN  \A k \in 1..Len(rules) : RuleIsRegistered(rules[k])

\* a CR1 call with the catalog's schema has returned the finding of the
\* catalog's rule must_be_negative_or_zero for its one field CR1_100_010
C17_Witness ==
    /\ HasReturned
    /\ template_type = OWN_FUNDS_CR1
    /\ template_schema = templates[OWN_FUNDS_CR1]
    /\ Cardinality(PlacesOf(template_schema)) = Len(GetAllFieldIds(OWN_FUNDS_CR1))
    /\ Cardinality(IssuesWith("CR1_100_010", "must_be_negative_or_zero")) = 1

RECURSIVE DefsBefore(_, _)
DefsBefore(schema, i) ==
    IF i <= 1 THEN 0
    ELSE DefsBefore(schema, i - 1) + Len(schema.sections[i - 1].fields)

\* C19: for a template type of the catalog, get_all_field_ids returns one
\* entry per field definition of its schema, the field_id of the j-th field
\* of the i-th section standing after those of the earlier sections and of
\* the earlier fields of its section, and no field_id twice; for a type that
\* is not in the catalog it returns the empty list.
C19_FieldIdsInDeclarationOrder ==
    pc = "field_ids_listed" =>
        IF template_type \in DOMAIN templates
        THEN LET schema == templates[template_type]
             IN  /\ Len(field_ids) = Cardinality(PlacesOf(schema))
                 /\ \A p \in PlacesOf(schema) :
                       field_ids[DefsBefore(schema, p[1]) + p[2]]
                           = DefAt(schema, p).field_id
                 /\ \A k, l \in 1..Len(field_ids) :
                       field_ids[k] = field_ids[l] => k = l
        ELSE field_ids = << >>

\* the field ids of the CR2 template have been listed: five, the first of
\* the second section in third place
C19_Witness ==
    /\ pc = "field_ids_listed"
    /\ template_type = CAPITAL_REQUIREMENTS_CR2
    /\ Len(field_ids) > 4
    /\ field_ids[3] = templates[template_type].sections[2].fields[1].field_id
    /\ field_ids[1] # field_ids[3]

(***************************************************************************)
(* C20                                                                     *)
(***************************************************************************)
\* the field is proposed with the number 0 as its value
ReportedZero(id) ==
    /\ ReportedPresent(id)
    /\ LET i == CHOOSE i \in PopulatedEntries(id) :
                    \A j \in PopulatedEntries(id) : j <= i
       IN  fields[i].value = PyNum(0)

\* C20: a CR2 call that returns has the warning cr2_credit_risk_required, on
\* CR2_010_010, exactly when CR2_010_010 and CR2_020_010 are both reported
\* with value zero; the warning leaves is_valid to the errors alone.
C20_CreditRiskWarning ==
    (HasReturned /\ template_type = CAPITAL_REQUIREMENTS_CR2) =>
        LET found == IssuesWith("CR2_010_010", "cr2_credit_risk_required")
        IN  /\ found # {} <=> (ReportedZero("CR2_010_010") /\ ReportedZero("CR2_020_010"))
            /\ \A k \in found : issues[k].severity = "warning"
            /\ pc = "done" =>
                  (summary.is_valid <=>
                     \A k \in 1..Len(issues) : issues[k].severity # "error")

(***************************************************************************)
(* C21                                                                     *)
(***************************************************************************)
\* the proposed fields without the entries that a later entry of the same
\* field_id follows
LastEntriesOnly ==
    LET Keep(i) == \A j \in (i + 1)..Len(fields) :
                       fields[j].field_id # fields[i].field_id
        RECURSIVE From(_)
        From(i) == IF i > Len(fields) THEN << >>
                   ELSE IF Keep(i) THEN << fields[i] >> \o From(i + 1)
                   ELSE From(i + 1)
    IN  From(1)

\* C21: the per-field checks and the cross-field checks both judge the last
\* entry of each field_id: a call ends as the call on the last entries alone
\* ends, with the same findings.
C21_LastEntryJudgedByBoth ==
    HasEnded =>
        LET r == ValidateFieldsResult(LastEntriesOnly, template_type, template_schema)
        IN  /\ r.raised = raised
            /\ r.issues = issues

(***************************************************************************)
(* C22                                                                     *)
(***************************************************************************)
\* values that are not null and that Python takes for false
FalsyValues == { PyNum(0), PyStr(""), PyBool(FALSE) }

\* the definition lists this rule name
ListsRule(d, rule) ==
    \E i \in 1..Len(d.validation_rules) : d.validation_rules[i] = rule

\* the findings a list must hold for a required field whose value is falsy
\* and not null: no required_field error, the must_be_positive error when the
\* definition lists that rule, the must_be_negative_or_zero error when it
\* lists that rule and the value is the empty string, and the confidence
\* warning below 0.5
FalsyFieldJudged(list, d) ==
    LET e == LastEntry(d.field_id)
        With(rule) == { k \in 1..Len(list) :
                          list[k].field_id = d.field_id /\ list[k].rule = rule }
    IN  /\ With("required_field") = {}
        /\ With("must_be_positive") # {} <=> ListsRule(d, "must_be_positive")
        /\ With("must_be_negative_or_zero") # {}
              <=> (ListsRule(d, "must_be_negative_or_zero") /\ e.value = PyStr(""))
        /\ With("confidence_threshold") # {} <=> e.confidence_score < Unit \div 2

\* C22: a required field proposed with 0, "" or False is not reported
\* missing, and its rule predicates and the confidence check are applied:
\* among the findings of the per-field loops of every call that completes
\* them, and in the list of every call that returns one.
C22_FalsyValueIsNotMissing ==
    \A d \in DefsOfCall :
        (/\ d.required
         /\ EntriesFor(d.field_id) # {}
         /\ LastEntry(d.field_id).value \in FalsyValues) =>
            /\ HasWalked => FalsyFieldJudged(per_field_issues, d)
            /\ HasReturned => FalsyFieldJudged(issues, d)

\* a required field with rule must_be_positive proposed as the empty string
\* with confidence 0.49 has its rule error and its warning, and nothing else
C22_Witness ==
    /\ HasReturned
    /\ \E d \in DefsOfCall :
          /\ d.required
          /\ d.validation_rules = << "must_be_positive" >>
          /\ EntriesFor(d.field_id) # {}
          /\ LastEntry(d.field_id) =
                TemplateField(d.field_id, PyStr(""), Hundredths(49))
          /\ Cardinality(IssuesWith(d.field_id, "must_be_positive")) = 1
          /\ Cardinality(IssuesWith(d.field_id, "confidence_threshold")) = 1
          /\ Cardinality(IssuesFor(d.field_id)) = 2

(***************************************************************************)
(* C23                                                                     *)
(***************************************************************************)
\* the positions in the returned list of the findings of the CR1 formula checks
Cr1FormulaErrors ==
    { k \in 1..Len(issues) :
        issues[k].rule \in { "cr1_cet1_calculation", "cr1_tier1_calculation",
                             "cr1_own_funds_calculation" } }

\* the reported CET1 is more than 1 away from the sum of its inputs, the
\* reported Tier 1 is the reported CET1 plus AT1 and the reported own funds
\* are the reported Tier 1 plus Tier 2
OnlyCet1Inconsistent ==
    /\ ReportedPresent("CR1_500_010")
    /\ Abs(SumOfCet1Inputs - AmountOf("CR1_500_010")) > Unit
    /\ ReportedPresent("CR1_600_010")
    /\ AmountOf("CR1_600_010") = AmountOf("CR1_500_010") + AmountOf("CR1_150_010")
    /\ ReportedPresent("CR1_700_010")
    /\ AmountOf("CR1_700_010") = AmountOf("CR1_600_010") + AmountOf("CR1_200_010")

\* C23: a CR1 call that returns for an input whose reported CET1 is off by
\* more than 1 while its reported Tier 1 and own funds are consistent with the
\* reported totals below them has exactly one formula error, the
\* cr1_cet1_calculation error on CR1_500_010.
C23_FormulaErrorsDoNotCascade ==
    (HasReturned /\ template_type = OWN_FUNDS_CR1 /\ OnlyCet1Inconsistent) =>
        /\ Cardinality(Cr1FormulaErrors) = 1
        /\ \A k \in Cr1FormulaErrors :
              /\ issues[k].rule = "cr1_cet1_calculation"
              /\ issues[k].field_id = "CR1_500_010"
              /\ issues[k].severity = "error"

\* component 100, reported CET1 135, AT1 10, Tier 1 145, Tier 2 20 and own
\* funds 165 have returned the CET1 error alone
C23_Witness ==
    /\ HasReturned /\ template_type = OWN_FUNDS_CR1
    /\ Proposed("CR1_010_010", 100) /\ Proposed("CR1_500_010", 135)
    /\ Proposed("CR1_150_010", 10) /\ Proposed("CR1_600_010", 145)
    /\ Proposed("CR1_200_010", 20) /\ Proposed("CR1_700_010", 165)
    /\ OnlyCet1Inconsistent
    /\ IssuesWith("CR1_500_010", "cr1_cet1_calculation") # {}
    /\ IssuesWith("CR1_600_010", "cr1_tier1_calculation") = {}
    /\ IssuesWith("CR1_700_010", "cr1_own_funds_calculation") = {}

(***************************************************************************)
(* C24                                                                     *)
(***************************************************************************)
\* process_query has built template_fields and has not failed since
HasMapped == pc \in {"mapped", "checked", "responded"}

\* validate_fields has returned its list to process_query
HasChecked == pc \in {"checked", "responded"}

\* the entry of the generation output carries no confidence_score
CarriesNoScore(i) == llm_output.fields[i].confidence_score = KeyAbsent

\* no later entry of the generation output has the field_id of this one: the
\* entry is the one the per-field loops judge
IsJudgedEntry(i) ==
    \A j \in (i + 1)..Len(llm_output.fields) :
        llm_output.fields[j].field_id # llm_output.fields[i].field_id

\* template_fields is the generation output entry by entry: same field_id and
\* value, the score of the entry, and 0.5 for an entry that carries none
FieldsAreTheGeneratedOnes ==
    /\ Len(fields) = Len(llm_output.fields)
    /\ \A i \in 1..Len(fields) :
          /\ fields[i].field_id = llm_output.fields[i].field_id
          /\ fields[i].value = llm_output.fields[i].value
          /\ fields[i].confidence_score =
                IF CarriesNoScore(i) THEN Unit \div 2
                ELSE llm_output.fields[i].confidence_score.n

\* the step in which validate_fields runs: it returns its list or raises
ValidationRuns == pc = "mapped" /\ pc' # pc

\* C24: once process_query has built its template fields, they are the
\* entries of the generation output, each entry without confidence_score
\* with the score 0.5; once validation has returned, retrieval and generation
\* have returned and no confidence_threshold warning names the field_id of
\* an entry without confidence_score that the walk judged; and validation
\* starts from no other step than the mapping, on those fields.
C24_DefaultScoreThenValidation ==
    /\ [] (HasMapped => FieldsAreTheGeneratedOnes)
    /\ [] (HasChecked =>
              /\ relevant_docs.returned /\ llm_output.returned
              /\ \A i \in 1..Len(llm_output.fields) :
                    (CarriesNoScore(i) /\ IsJudgedEntry(i)) =>
                        IssuesWith(llm_output.fields[i].field_id,
                                   "confidence_threshold") = {})
    /\ [][ (pc' \in {"checked"} \/ (raised' /\ ~raised)) =>
              /\ ValidationRuns
              /\ relevant_docs.returned /\ llm_output.returned
              /\ FieldsAreTheGeneratedOnes
              /\ fields' = fields ]_vars

\* a CR1 request has responded whose generation proposed CR1_010_010 = 100
\* without confidence_score and CR1_500_010 = 100 with 0.49: the first was
\* validated with 0.5 and has no warning, the second has its warning
C24_Witness ==
    /\ pc = "responded"
    /\ relevant_docs.returned
    /\ llm_output.fields =
          << FieldData("CR1_010_010", Amount(100), KeyAbsent, << "CRR Article 26" >>),
             FieldData("CR1_500_010", Amount(100), PyNum(Hundredths(49)),
                       << "CRR Article 26" >>) >>
    /\ fields[1].confidence_score = Unit \div 2
    /\ IssuesWith("CR1_010_010", "confidence_threshold") = {}
    /\ Cardinality(IssuesWith("CR1_500_010", "confidence_threshold")) = 1

====
